---- MODULE Spec2Model ----
(***************************************************************************)
(* kube-resource-suggest: the hybrid recommendation engine                 *)
(* (pkg/engine), the suggestion publisher (pkg/reporter) and the control   *)
(* loop (cmd/controller).                                                  *)
(*                                                                         *)
(* Quantities are kept in the code's canonical units: CPU in nanocores,    *)
(* memory in bytes.  A quantity string is the record [mag, frac, num, suf]: *)
(* the magnitude text stands for mag + frac/1000 when num holds and is no   *)
(* number otherwise, and suf is the text that follows it.  A resource       *)
(* name is the sequence of its dash-free segments, so that appending       *)
(* "-sts" or "-1" is appending a segment and string equality is sequence   *)
(* equality.  float64 arithmetic of makeSuggestion is carried out exactly  *)
(* on the finite, non-negative usages the model draws (NaN and infinities  *)
(* are not among them) and truncated where the code converts to int64.     *)
(***************************************************************************)
EXTENDS Integers, Sequences, FiniteSets, TLC

VARIABLES
    workloads,      \* the workloads of the namespace, in discovery order
    pods,           \* per workload uid: the pods its selector matches, as the kubelet path sees them
    promUp,         \* whether the historical backend answers its health probe
    promData,       \* per (workload uid, container): what the historical queries return
    store,          \* the published ResourceSuggestion records
    rvNext,         \* the object store's next resource version
    env,            \* how many external changes have happened
    pc,             \* where the control loop stands: scan, generate, get, write
    pass,           \* the number of the current pass
    wl,             \* the workloads discovered in this pass
    wi,             \* processWorkload: index of the current workload in wl
    suggestions,    \* processWorkload: what GenerateLogic returned
    si,             \* processWorkload: index of the current suggestion
    got,            \* UpdateOrReport: what its Get returned, [found, rv]
    lastPrometheusReachable,
    probes,         \* history: how many health probes this pass has issued
    printed,        \* history: the reachability message the last probe printed
    window,         \* history: the lookback range of the last historical attempt
    apiFault,       \* the API request that fails next: "none", "write", or a kind's listing
    slept,          \* the seconds main slept last, 0 before the first sleep
    returned,       \* history: every [outcome, ret] an UpdateOrReport call ended with
    ret,            \* the last return value of UpdateOrReport, [changed, err]
    call,           \* history: the last finished UpdateOrReport call
    assigned,       \* history: every <<uid, container, record name>> ever looked up
    calc            \* makeSuggestion applied to one drawn input: [c, cpu, mem, done, out]

(***************************************************************************)
(* Units and constants of pkg/engine/engine.go                             *)
(***************************************************************************)
NanoPerMilli == 1000000
NanoPerMicro == 1000
NanoPerCore == 1000000000
BytesPerKi == 1024
BytesPerMi == 1048576
BytesPerGi == 1073741824
MinCpuMilli == 30
MinMemMi == 50

Mi(n) == n * BytesPerMi
Milli(n) == n * NanoPerMilli

\* fmt.Sprintf("%v", m[key]) of a key the map does not hold (or of a nil map)
NilStr == [mag |-> 0, frac |-> 0, num |-> FALSE, suf |-> "<nil>"]

\* an integer magnitude, a magnitude with a decimal part, a non-numeric one
QStr(mag, suf) == [mag |-> mag, frac |-> 0, num |-> TRUE, suf |-> suf]
QDec(mag, frac, suf) == [mag |-> mag, frac |-> frac, num |-> TRUE, suf |-> suf]
QBad(suf) == [mag |-> 0, frac |-> 0, num |-> FALSE, suf |-> suf]

(***************************************************************************)
(* Quantity normalizer                                                     *)
(***************************************************************************)
\* val, _ := strconv.ParseInt(magnitude, 10, 64): 0 when it is no integer
ParseInt(s) == IF s.num /\ s.frac = 0 THEN s.mag ELSE 0

parseCpuToNanoMicroAsMilli(s) ==
    IF s.suf = "n" THEN ParseInt(s)
    ELSE IF s.suf = "m" THEN ParseInt(s) * NanoPerMilli
    ELSE IF s.suf = "u" THEN ParseInt(s) * NanoPerMilli
    ELSE IF s.suf = "" /\ s.num THEN s.mag * NanoPerCore + s.frac * NanoPerMilli
    ELSE 0
parseCpuToNano(s) ==
    IF s.suf = "n" THEN ParseInt(s)
    ELSE IF s.suf = "m" THEN ParseInt(s) * NanoPerMilli
    ELSE IF s.suf = "u" THEN ParseInt(s) * NanoPerMicro
    ELSE IF s.suf = "" /\ s.num THEN s.mag * NanoPerCore + s.frac * NanoPerMilli
    ELSE 0

parseMemoryToBytes(s) ==
    IF s.suf = "Ki" THEN ParseInt(s) * BytesPerKi
    ELSE IF s.suf = "Mi" THEN ParseInt(s) * BytesPerMi
    ELSE IF s.suf = "Gi" THEN ParseInt(s) * BytesPerGi
    ELSE IF s.suf = "" THEN ParseInt(s)
    ELSE 0

(***************************************************************************)
(* Recommendation calculator: the locals of makeSuggestion                 *)
(***************************************************************************)
\* int64(usage * 1.2): usage + usage/5, truncated
Buffered(usage) == usage + (usage \div 5)

RecommendedNoFloor(usage, floor) == Buffered(usage)
RecommendedFloorDoubled(usage, floor) ==
    IF Buffered(usage) < floor THEN floor + floor ELSE Buffered(usage)
Recommended(usage, floor) ==
    IF Buffered(usage) < floor THEN floor ELSE Buffered(usage)

roundUp5(val) == IF val = 0 THEN 0 ELSE ((val + 4) \div 5) * 5

roundNano(nano) == roundUp5(nano \div NanoPerMilli) * NanoPerMilli
roundBytes(b) == roundUp5(b \div BytesPerMi) * BytesPerMi

RECURSIVE Gcd(_, _)
Gcd(a, b) == IF b = 0 THEN a ELSE Gcd(b, a % b)

\* int64(float64(target) * (float64(lim) / float64(req))), req > 0
Scaled(target, lim, req) ==
    LET g == Gcd(lim, req)
        n == lim \div g
        d == req \div g
    IN  IF lim = 0 THEN 0 ELSE (target \div d) * n + ((target % d) * n) \div d

targetCpuLimUnscaled(hasCpuLimit, curReq, curLim, targetReq) == targetReq
targetCpuLim(hasCpuLimit, curReq, curLim, targetReq) ==
    IF hasCpuLimit /\ curReq > 0
    THEN roundNano(Scaled(targetReq, curLim, curReq))
    ELSE targetReq

targetMemLimKeepsLimit(hasMemLimit, curReq, curLim, targetReq) ==
    IF hasMemLimit
    THEN (IF curReq > 0 THEN roundBytes(Scaled(targetReq, curLim, curReq)) ELSE curLim)
    ELSE targetReq
targetMemLim(hasMemLimit, curReq, curLim, targetReq) ==
    IF hasMemLimit /\ curReq > 0
    THEN roundBytes(Scaled(targetReq, curLim, curReq))
    ELSE targetReq

StatusFirstMatchDown(cpuUp, memUp, cpuDown, memDown) ==
    IF cpuDown \/ memDown THEN "Overprovisioned"
    ELSE IF cpuUp \/ memUp THEN "Underprovisioned"
    ELSE "Optimal"
Status(cpuUp, memUp, cpuDown, memDown) ==
    IF cpuUp \/ memUp THEN "Underprovisioned"
    ELSE IF cpuDown /\ memDown THEN "Overprovisioned"
    ELSE IF cpuDown \/ memDown THEN "Overprovisioned"
    ELSE "Optimal"

\* "%dm" / "%dMi" of the value, or the explicit not-set marker for zero
fmtCpu(nano) ==
    IF nano = 0 THEN [n |-> 0, unit |-> "m (Not Set)"]
    ELSE [n |-> nano \div NanoPerMilli, unit |-> "m"]
fmtMemAsKi(bytes) ==
    IF bytes = 0 THEN [n |-> 0, unit |-> "Mi (Not Set)"]
    ELSE [n |-> bytes \div BytesPerMi, unit |-> "Ki"]
fmtMem(bytes) ==
    IF bytes = 0 THEN [n |-> 0, unit |-> "Mi (Not Set)"]
    ELSE [n |-> bytes \div BytesPerMi, unit |-> "Mi"]

\* fmt.Sprintf("%s->%s", current, target)
Arrow(cur, tgt) == [cur |-> cur, tgt |-> tgt]

\* Every local of makeSuggestion for container spec c and the observed usage
Locals(c, usageCpuNano, usageMemBytes) ==
    LET currentCpuReqNano == parseCpuToNano(c.reqCpu)
        currentMemReqBytes == parseMemoryToBytes(c.reqMem)
        hasCpuLimit == c.limCpu # NilStr
        hasMemLimit == c.limMem # NilStr
        currentCpuLimNano == IF hasCpuLimit THEN parseCpuToNano(c.limCpu) ELSE 0
        currentMemLimBytes == IF hasMemLimit THEN parseMemoryToBytes(c.limMem) ELSE 0
        targetCpuReqNano ==
            roundNano(Recommended(usageCpuNano, MinCpuMilli * NanoPerMilli))
        targetMemReqBytes ==
            roundBytes(Recommended(usageMemBytes, MinMemMi * BytesPerMi))
        targetCpuLimNano ==
            targetCpuLim(hasCpuLimit, currentCpuReqNano, currentCpuLimNano,
                         targetCpuReqNano)
        targetMemLimBytes ==
            targetMemLim(hasMemLimit, currentMemReqBytes, currentMemLimBytes,
                         targetMemReqBytes)
    IN  [currentCpuReqNano |-> currentCpuReqNano,
         currentMemReqBytes |-> currentMemReqBytes,
         currentCpuLimNano |-> currentCpuLimNano,
         currentMemLimBytes |-> currentMemLimBytes,
         hasCpuLimit |-> hasCpuLimit,
         hasMemLimit |-> hasMemLimit,
         targetCpuReqNano |-> targetCpuReqNano,
         targetMemReqBytes |-> targetMemReqBytes,
         targetCpuLimNano |-> targetCpuLimNano,
         targetMemLimBytes |-> targetMemLimBytes,
         status |-> Status(targetCpuReqNano > currentCpuReqNano,
                           targetMemReqBytes > currentMemReqBytes,
                           targetCpuReqNano < currentCpuReqNano,
                           targetMemReqBytes < currentMemReqBytes),
         cpuRequestStr |-> Arrow(fmtCpu(currentCpuReqNano), fmtCpu(targetCpuReqNano)),
         memRequestStr |-> Arrow(fmtMem(currentMemReqBytes), fmtMem(targetMemReqBytes)),
         cpuLimitStr |-> Arrow(fmtCpu(currentCpuLimNano), fmtCpu(targetCpuLimNano)),
         memLimitStr |-> Arrow(fmtMem(currentMemLimBytes), fmtMem(targetMemLimBytes))]

makeSuggestion(workloadName, workloadType, containerName, containerIndex, totalContainers, podCount, usageCpuNano, usageMemBytes, containerSpec, source) ==
    LET l == Locals(containerSpec, usageCpuNano, usageMemBytes)
    IN  [WorkloadName |-> workloadName,
         WorkloadType |-> workloadType,
         ContainerName |-> containerName,
         ContainerIndex |-> containerIndex,
         TotalContainers |-> totalContainers,
         PodCount |-> podCount,
         CpuRequest |-> l.cpuRequestStr,
         CpuLimit |-> l.cpuLimitStr,
         MemoryRequest |-> l.memRequestStr,
         MemoryLimit |-> l.memLimitStr,
         Status |-> l.status,
         Source |-> source]

(***************************************************************************)
(* The cluster the controller runs against                                 *)
(***************************************************************************)
MaxPasses == 2
MaxEnv == 1

AppSpec ==
    [name |-> "app", reqCpu |-> QStr(100, "m"), reqMem |-> QStr(512, "Mi"),
     limCpu |-> QStr(200, "m"), limMem |-> QStr(512, "Mi")]
SidecarSpec ==
    [name |-> "sidecar", reqCpu |-> NilStr, reqMem |-> NilStr,
     limCpu |-> NilStr, limMem |-> NilStr]

\* metadata.creationTimestamp is kept as the workload's age in minutes
NoCreationTimestamp == -1
MinutesPerHour == 60
HoursPerDay == 24

\* Deployment web (two containers), Deployment web-sts, StatefulSet web, and
\* Deployment api, whose selector has matchExpressions only
DeployWeb ==
    [kind |-> "Deployment", name |-> <<"web">>, uid |-> 1, selector |-> TRUE,
     creation |-> 30,
     apiVersion |-> "apps/v1",
     containers |-> <<AppSpec, SidecarSpec>>]
DeployWebSts ==
    [kind |-> "Deployment", name |-> <<"web", "sts">>, uid |-> 2, selector |-> TRUE,
     creation |-> 45 * HoursPerDay * MinutesPerHour,
     apiVersion |-> "apps/v1",
     containers |-> <<AppSpec>>]
StsWeb ==
    [kind |-> "StatefulSet", name |-> <<"web">>, uid |-> 3, selector |-> TRUE,
     creation |-> NoCreationTimestamp,
     apiVersion |-> "apps/v1",
     containers |-> <<AppSpec>>]

DeployApi ==
    [kind |-> "Deployment", name |-> <<"api">>, uid |-> 4, selector |-> FALSE,
     creation |-> 30,
     apiVersion |-> "apps/v1",
     containers |-> <<AppSpec>>]

Clusters == {<<DeployWeb>>, <<DeployWebSts, StsWeb>>, <<DeployApi, StsWeb>>}

NoSample == -1
LowUsage == [cpu |-> Milli(20), mem |-> Mi(100)]
HighUsage == [cpu |-> Milli(125), mem |-> Mi(400)]
Usages == {LowUsage, HighUsage}
\* what the two historical queries return for one container
PromAnswers == {[cpu |-> NoSample, mem |-> NoSample]} \cup Usages

Range(f) == {f[x] : x \in DOMAIN f}
ContainerNames(w) == {c.name : c \in Range(w.containers)}
Pairs(ws) == UNION {{<<w.uid, n>> : n \in ContainerNames(w)} : w \in Range(ws)}

\* one pod as the real-time path sees it: its phase, whether the node summary
\* answered, and the containers the summary lists for it
PodViews(w) ==
    {[running |-> FALSE, ok |-> TRUE, containers |-> <<>>],
     [running |-> TRUE, ok |-> FALSE, containers |-> <<>>]}
    \cup {[running |-> TRUE, ok |-> TRUE, containers |-> m] :
            m \in UNION {[S -> Usages] : S \in SUBSET ContainerNames(w)}}
\* the pod lists drawn: every single view for a workload of several containers,
\* the fully reporting ones otherwise, and two replicas that differ
PodLists(w) ==
    IF ~w.selector
    THEN {<<[running |-> TRUE, ok |-> TRUE,
             containers |-> [n \in ContainerNames(w) |-> LowUsage]]>>}
    ELSE
    {<<>>}
    \cup {<<p>> : p \in {v \in PodViews(w) :
                            \/ Len(w.containers) > 1
                            \/ (v.running /\ v.ok /\ DOMAIN v.containers # {})}}
    \cup (IF Len(w.containers) > 1
          THEN {<<[running |-> TRUE, ok |-> TRUE,
                   containers |-> [n \in ContainerNames(w) |-> LowUsage]],
                  q>> :
                  q \in {[running |-> TRUE, ok |-> TRUE,
                          containers |-> [n \in ContainerNames(w) |-> HighUsage]],
                         [running |-> TRUE, ok |-> FALSE, containers |-> <<>>]}}
          ELSE {})

suggestionGVR ==
    [Group |-> "suggester.krs.io", Version |-> "v1alpha1",
     Resource |-> "resourcesuggestions"]

(***************************************************************************)
(* Discovery: scanner.ListWorkloads, and the delays of main                *)
(***************************************************************************)
targetResources == <<"Deployment", "StatefulSet", "DaemonSet">>

\* the items of one kind, or nothing when its List call fails
ListKind(ws, kind, fault) ==
    IF fault = kind THEN <<>> ELSE SelectSeq(ws, LAMBDA w : w.kind = kind)

\* a failed List ends the whole scan
ListWorkloadsAbortOnError(ws, fault) ==
    LET all == IF fault = targetResources[1] THEN <<>>
               ELSE IF fault = targetResources[2]
                    THEN ListKind(ws, targetResources[1], fault)
                    ELSE ListKind(ws, targetResources[1], fault)
                         \o ListKind(ws, targetResources[2], fault)
    IN  [items |-> all, err |-> Len(all) = 0]
ListWorkloads(ws, fault) ==
    LET all == ListKind(ws, targetResources[1], fault)
               \o ListKind(ws, targetResources[2], fault)
               \o ListKind(ws, targetResources[3], fault)
    IN  [items |-> all, err |-> Len(all) = 0]

RetryDelay == 10
ScanInterval == 3600

\* how long main sleeps after an iteration, in seconds
NextDelayAlwaysInterval(err) == ScanInterval
NextDelay(err) == IF err THEN RetryDelay ELSE ScanInterval

\* rangeStr of the historical queries, and the hours it stands for
Lookback(creation) ==
    IF creation = NoCreationTimestamp THEN [n |-> 30, unit |-> "d"]
    ELSE LET age == IF creation < MinutesPerHour THEN MinutesPerHour ELSE creation
         IN  [n |-> (age \div MinutesPerHour) + 1, unit |-> "h"]

NoWindow == [n |-> 0, unit |-> ""]

(***************************************************************************)
(* Source selection: GenerateLogic and its two adapters                    *)
(***************************************************************************)
RECURSIVE SumField(_, _, _, _)
\* the sum of usage field f of container n over the pod metrics pms[1..i]
SumField(pms, n, f, i) ==
    IF i = 0 THEN 0
    ELSE SumField(pms, n, f, i - 1)
         + (IF n \in DOMAIN pms[i].containers THEN pms[i].containers[n][f] ELSE 0)

\* podMetricsMap: the running podList whose node summary answered
PodMetricsMap(podList) == SelectSeq(podList, LAMBDA p : p.running /\ p.ok)

KubeletContainers(w, podList) ==
    LET cs == w.containers
        pms == PodMetricsMap(podList)
    IN  [i \in 1..Len(cs) |->
            makeSuggestion(w.name, w.kind, cs[i].name, i - 1, Len(cs), Len(pms),
                SumField(pms, cs[i].name, "cpu", Len(pms)) \div Len(pms),
                SumField(pms, cs[i].name, "mem", Len(pms)) \div Len(pms),
                cs[i], "Kubelet")]

\* lists the pods without looking at matchLabels
GenerateKubeletSuggestionsAnySelector(w, podList) ==
    IF Len(podList) = 0 THEN <<>>
    ELSE IF Len(PodMetricsMap(podList)) = 0 THEN <<>>
    ELSE KubeletContainers(w, podList)
GenerateKubeletSuggestions(w, podList) ==
    IF ~w.selector THEN <<>>
    ELSE IF Len(podList) = 0 THEN <<>>
    ELSE IF Len(PodMetricsMap(podList)) = 0 THEN <<>>
    ELSE KubeletContainers(w, podList)

GeneratePrometheusSuggestions(w, reachable, data, podList) ==
    LET cs == w.containers
        F[i \in 0..Len(cs)] ==
            IF i = 0 THEN <<>>
            ELSE LET d == data[<<w.uid, cs[i].name>>]
                 IN  IF d.cpu = NoSample \/ d.mem = NoSample
                     THEN F[i - 1]
                     ELSE Append(F[i - 1],
                            makeSuggestion(w.name, w.kind, cs[i].name, i - 1, Len(cs),
                                           Len(podList), d.cpu, d.mem, cs[i], "Prometheus"))
    IN  IF ~reachable THEN <<>>
        ELSE IF ~w.selector THEN <<>>
        ELSE IF Len(podList) = 0 THEN <<>>
        ELSE F[Len(cs)]

GenerateLogicHistoricalFirst(w, reachable, data, podList) ==
    LET promResults == GeneratePrometheusSuggestions(w, TRUE, data, podList)
    IN  IF promResults # <<>> THEN promResults
        ELSE GenerateKubeletSuggestions(w, podList)
\* the containers the historical path left out are filled in from the kubelet
GenerateLogicFillIn(w, reachable, data, podList) ==
    LET promResults == GeneratePrometheusSuggestions(w, reachable, data, podList)
        kubelet == GenerateKubeletSuggestions(w, podList)
    IN  promResults
        \o SelectSeq(kubelet,
                     LAMBDA k : \A i \in 1..Len(promResults) :
                                    promResults[i].ContainerName # k.ContainerName)
\* a failed probe switches the historical path off until the next message
GenerateLogicLatched(w, reachable, data, podList) ==
    LET promResults == GeneratePrometheusSuggestions(
                           w, reachable /\ lastPrometheusReachable, data, podList)
    IN  IF promResults # <<>> THEN promResults
        ELSE GenerateKubeletSuggestions(w, podList)
GenerateLogic(w, reachable, data, podList) ==
    LET promResults == GeneratePrometheusSuggestions(w, reachable, data, podList)
    IN  IF promResults # <<>> THEN promResults
        ELSE GenerateKubeletSuggestions(w, podList)

\* lastPrometheusReachable after one probe
NextReachableSticky(last, reachable) ==
    IF ~reachable THEN (IF last THEN FALSE ELSE last)
    ELSE last
NextReachable(last, reachable) ==
    IF ~reachable THEN (IF last THEN FALSE ELSE last)
    ELSE (IF ~last THEN TRUE ELSE last)

\* what one probe prints about reachability
ProbeMessage(last, reachable) ==
    IF ~reachable THEN (IF last THEN "unreachable" ELSE "none")
    ELSE (IF ~last THEN "restored" ELSE "none")

(***************************************************************************)
(* Suggestion publisher                                                    *)
(***************************************************************************)
IntStr(n) == CASE n = 1 -> "1" [] n = 2 -> "2" [] n = 3 -> "3" [] OTHER -> "n"

RecordName(s) ==
    LET typed == CASE s.WorkloadType = "StatefulSet" -> s.WorkloadName \o <<"sts">>
                   [] s.WorkloadType = "DaemonSet" -> s.WorkloadName \o <<"ds">>
                   [] OTHER -> s.WorkloadName
    IN  IF s.TotalContainers > 1
        THEN typed \o <<IntStr(s.ContainerIndex + 1)>>
        ELSE typed

OwnerRefNotController(w) ==
    [apiVersion |-> w.apiVersion, kind |-> w.kind, name |-> w.name, uid |-> w.uid,
     controller |-> FALSE]
OwnerRef(w) ==
    [apiVersion |-> w.apiVersion, kind |-> w.kind, name |-> w.name, uid |-> w.uid,
     controller |-> TRUE]

newSpec(s) ==
    [workloadType |-> s.WorkloadType,
     containerName |-> s.ContainerName,
     podCount |-> s.PodCount,
     cpuRequest |-> s.CpuRequest,
     cpuLimit |-> s.CpuLimit,
     memoryRequest |-> s.MemoryRequest,
     memoryLimit |-> s.MemoryLimit,
     status |-> s.Status,
     source |-> s.Source]

\* compares the stored object, resource version and all, with the new spec
isSpecEqualObjects(oldSpec, new) ==
    /\ "resourceVersion" \in DOMAIN new
    /\ oldSpec = new
isSpecEqualRequestsOnly(oldSpec, new) ==
    /\ oldSpec.cpuRequest = new.cpuRequest
    /\ oldSpec.memoryRequest = new.memoryRequest
isSpecEqual(oldSpec, new) ==
    /\ oldSpec.cpuRequest = new.cpuRequest
    /\ oldSpec.cpuLimit = new.cpuLimit
    /\ oldSpec.memoryRequest = new.memoryRequest
    /\ oldSpec.memoryLimit = new.memoryLimit
    /\ oldSpec.status = new.status

Existing(st, name) == {r \in st : r.name = name}

\* the resource version the Update carries
SentVersionCurrent(gotRv, st, name) ==
    IF Existing(st, name) = {} THEN gotRv
    ELSE (CHOOSE r \in Existing(st, name) : TRUE).rv
SentVersion(gotRv, st, name) == gotRv

\* the object store's answer to Update(obj): [store, err]
ApiUpdateDropOnConflict(st, obj, newRv) ==
    LET ex == Existing(st, obj.name)
    IN  IF ex = {} THEN [store |-> st, err |-> "notfound"]
        ELSE IF \E r \in ex : r.rv # obj.rv
             THEN [store |-> st \ ex, err |-> "conflict"]
             ELSE [store |-> (st \ ex) \cup {[obj EXCEPT !.rv = newRv]},
                   err |-> "none"]
ApiUpdate(st, obj, newRv) ==
    LET ex == Existing(st, obj.name)
    IN  IF ex = {} THEN [store |-> st, err |-> "notfound"]
        ELSE IF \E r \in ex : r.rv # obj.rv
             THEN [store |-> st, err |-> "conflict"]
             ELSE [store |-> (st \ ex) \cup {[obj EXCEPT !.rv = newRv]},
                   err |-> "none"]

\* the object store's answer to Create(obj): [store, err]
ApiCreate(st, obj, newRv) ==
    IF Existing(st, obj.name) # {}
    THEN [store |-> st, err |-> "exists"]
    ELSE [store |-> st \cup {[obj EXCEPT !.rv = newRv]}, err |-> "none"]

(***************************************************************************)
(* The control loop: main, processWorkload, UpdateOrReport                 *)
(***************************************************************************)
NoSuggestion ==
    makeSuggestion(<<>>, "", "", 0, 0, 0, 0, 0,
                   [name |-> "", reqCpu |-> NilStr, reqMem |-> NilStr,
                    limCpu |-> NilStr, limMem |-> NilStr], "")
NoCall ==
    [n |-> 0, uid |-> 0, name |-> <<>>, sugg |-> NoSuggestion, outcome |-> "none",
     env |-> 0, write |-> "none", resource |-> "", rvGot |-> 0, rvSent |-> 0]
NoRet == [changed |-> FALSE, err |-> "none"]

vars ==
    <<workloads, pods, promUp, promData, store, rvNext, env, pc, pass, wl, wi,
      suggestions, si, got, lastPrometheusReachable, probes, printed, window,
      apiFault, slept, returned, ret, call, assigned, calc>>

metrics == <<workloads, pods, promUp, promData>>
cluster == <<metrics, apiFault>>
loop == <<pass, wl, wi, suggestions, si, slept>>
ghost == <<call, assigned, returned>>
probing == <<probes, printed, window>>

Idle == [c |-> AppSpec, cpu |-> 0, mem |-> 0, done |-> TRUE, out |-> [status |-> ""]]

Init ==
    /\ workloads \in Clusters
    /\ pods \in {f \in [{w.uid : w \in Range(workloads)} -> UNION {PodLists(w) : w \in Range(workloads)}] :
                    \A w \in Range(workloads) : f[w.uid] \in PodLists(w)}
    /\ promUp \in BOOLEAN
    /\ promData \in [Pairs(workloads) -> PromAnswers]
    /\ store = {}
    /\ rvNext = 1
    /\ env = 0
    /\ pc = "scan"
    /\ pass = 1
    /\ wl = <<>>
    /\ wi = 1
    /\ suggestions = <<>>
    /\ si = 1
    /\ got = [found |-> FALSE, rv |-> 0]
    /\ lastPrometheusReachable = TRUE
    /\ probes = 0
    /\ printed = "none"
    /\ window = NoWindow
    /\ apiFault = "none"
    /\ slept = 0
    /\ returned = {}
    /\ ret = NoRet
    /\ call = NoCall
    /\ assigned = {}
    /\ calc = Idle

\* the loop position after the current workload is finished
AfterWorkload ==
    IF wi < Len(wl)
    THEN /\ wi' = wi + 1
         /\ pc' = "generate"
         /\ suggestions' = <<>>
         /\ si' = 1
         /\ UNCHANGED <<pass, wl, slept>>
    ELSE /\ pc' = "scan"
         /\ pass' = pass + 1
         /\ slept' = NextDelay(FALSE)
         /\ wl' = <<>>
         /\ wi' = 1
         /\ suggestions' = <<>>
         /\ si' = 1

\* the loop position after UpdateOrReport returned for suggestions[si]
AfterItem ==
    IF si < Len(suggestions)
    THEN /\ si' = si + 1
         /\ pc' = "get"
         /\ UNCHANGED <<pass, wl, wi, suggestions, slept>>
    ELSE AfterWorkload

\* scanner.ListWorkloads at the top of a pass
Scan ==
    /\ pc = "scan"
    /\ pass <= MaxPasses
    /\ LET res == ListWorkloads(workloads, apiFault)
       IN  IF res.err
           THEN /\ wl' = <<>>
                /\ pc' = "scan"
                /\ pass' = pass + 1
                /\ slept' = NextDelay(TRUE)
           ELSE /\ wl' = res.items
                /\ pc' = "generate"
                /\ UNCHANGED <<pass, slept>>
    /\ wi' = 1
    /\ probes' = 0
    /\ apiFault' = IF apiFault = "write" THEN apiFault ELSE "none"
    /\ UNCHANGED <<metrics, store, rvNext, env, suggestions, si, got,
                   lastPrometheusReachable, printed, window, ret, ghost, calc>>

\* engine.GenerateLogic for workload wl[wi]
Generate ==
    /\ pc = "generate"
    /\ LET w == wl[wi]
           r == GenerateLogic(w, promUp, promData, pods[w.uid])
       IN  /\ lastPrometheusReachable' = NextReachable(lastPrometheusReachable, promUp)
           /\ printed' = ProbeMessage(lastPrometheusReachable, promUp)
           /\ probes' = probes + 1
           /\ window' = IF promUp THEN Lookback(w.creation) ELSE window
           /\ IF r = <<>>
              THEN AfterWorkload
              ELSE /\ suggestions' = r
                   /\ si' = 1
                   /\ pc' = "get"
                   /\ UNCHANGED <<pass, wl, wi, slept>>
    /\ UNCHANGED <<cluster, store, rvNext, env, got, ret, ghost, calc>>

\* UpdateOrReport up to and including the Get and the comparison
Get ==
    /\ pc = "get"
    /\ LET s == suggestions[si]
           w == wl[wi]
           name == RecordName(s)
           ex == Existing(store, name)
       IN  /\ assigned' = assigned \cup {<<w.uid, s.ContainerName, name>>}
           /\ IF ex # {} /\ \A r \in ex : isSpecEqual(r.spec, newSpec(s))
              THEN /\ ret' = [changed |-> FALSE, err |-> "none"]
                   /\ returned' = returned \cup {[outcome |-> "unchanged", ret |-> ret']}
                   /\ call' = [n |-> call.n + 1, uid |-> w.uid, name |-> name,
                               sugg |-> s, outcome |-> "unchanged", env |-> env,
                               write |-> "none", resource |-> suggestionGVR.Resource,
                               rvGot |-> (CHOOSE r \in ex : TRUE).rv, rvSent |-> 0]
                   /\ AfterItem
                   /\ UNCHANGED got
              ELSE /\ got' = [found |-> ex # {},
                              rv |-> IF ex = {} THEN 0 ELSE (CHOOSE r \in ex : TRUE).rv]
                   /\ pc' = "write"
                   /\ UNCHANGED <<ret, call, returned, loop>>
    /\ UNCHANGED <<cluster, store, rvNext, env, lastPrometheusReachable, probing, calc>>

\* UpdateOrReport from the Update or Create call to its return
Write ==
    /\ pc = "write"
    /\ LET s == suggestions[si]
           w == wl[wi]
           name == RecordName(s)
           sent == IF got.found THEN SentVersion(got.rv, store, name) ELSE 0
           obj == [name |-> name, rv |-> sent, spec |-> newSpec(s), owner |-> OwnerRef(w)]
           res == IF apiFault = "write" THEN [store |-> store, err |-> "unavailable"]
                  ELSE IF got.found THEN ApiUpdate(store, obj, rvNext)
                  ELSE ApiCreate(store, obj, rvNext)
       IN  /\ store' = res.store
           /\ rvNext' = IF res.err = "none" THEN rvNext + 1 ELSE rvNext
           /\ ret' = [changed |-> res.err = "none", err |-> res.err]
           /\ call' = [n |-> call.n + 1, uid |-> w.uid, name |-> name, sugg |-> s,
                       outcome |-> IF res.err # "none" THEN "error"
                                   ELSE IF got.found THEN "updated" ELSE "created",
                       env |-> env,
                       write |-> IF got.found THEN "update" ELSE "create",
                       resource |-> suggestionGVR.Resource,
                       rvGot |-> got.rv, rvSent |-> sent]
           /\ returned' = returned \cup {[outcome |-> call'.outcome, ret |-> ret']}
    /\ AfterItem
    /\ apiFault' = IF apiFault = "write" THEN "none" ELSE apiFault
    /\ UNCHANGED <<metrics, env, got, lastPrometheusReachable, probing, assigned, calc>>

(***************************************************************************)
(* Everything else in the cluster: operators, other controllers, the       *)
(* metrics backends                                                        *)
(***************************************************************************)
Reverse(q) == [i \in 1..Len(q) |-> q[Len(q) + 1 - i]]

\* the historical backend goes down or comes back
EnvPrometheus ==
    /\ env < MaxEnv
    /\ env' = env + 1
    /\ promUp' = ~promUp
    /\ UNCHANGED <<workloads, pods, promData, apiFault, store, rvNext, pc, loop, got,
                   lastPrometheusReachable, probing, ret, ghost, calc>>

\* somebody reorders the containers of a pod template
EnvReorder ==
    /\ env < MaxEnv
    /\ pc = "scan"
    /\ \E i \in 1..Len(workloads) :
          /\ Len(workloads[i].containers) > 1
          /\ workloads' = [workloads EXCEPT ![i].containers = Reverse(@)]
    /\ env' = env + 1
    /\ UNCHANGED <<pods, promUp, promData, apiFault, store, rvNext, pc, loop, got,
                   lastPrometheusReachable, probing, ret, ghost, calc>>

\* somebody edits a material field of a published record
EnvEdit ==
    /\ env < MaxEnv
    /\ \E r \in store :
          store' = (store \ {r}) \cup {[r EXCEPT !.rv = rvNext, !.spec.status = "Edited"]}
    /\ rvNext' = rvNext + 1
    /\ env' = env + 1
    /\ UNCHANGED <<cluster, pc, loop, got, lastPrometheusReachable, probing, ret,
                   ghost, calc>>

\* somebody changes only the metadata of a published record (a label, say)
EnvTouch ==
    /\ env < MaxEnv
    /\ \E r \in store : store' = (store \ {r}) \cup {[r EXCEPT !.rv = rvNext]}
    /\ rvNext' = rvNext + 1
    /\ env' = env + 1
    /\ UNCHANGED <<cluster, pc, loop, got, lastPrometheusReachable, probing, ret,
                   ghost, calc>>

\* somebody deletes a published record
EnvDelete ==
    /\ env < MaxEnv
    /\ \E r \in store : store' = store \ {r}
    /\ env' = env + 1
    /\ UNCHANGED <<cluster, rvNext, pc, loop, got, lastPrometheusReachable, probing,
                   ret, ghost, calc>>

\* the next write to the object store, or the next listing of one kind, fails
EnvFault ==
    /\ env < MaxEnv
    /\ apiFault = "none"
    /\ apiFault' \in {"write"} \cup Range(targetResources)
    /\ env' = env + 1
    /\ UNCHANGED <<metrics, store, rvNext, pc, loop, got, lastPrometheusReachable,
                   probing, ret, ghost, calc>>

Controller == Scan \/ Generate \/ Get \/ Write
Environment ==
    EnvPrometheus \/ EnvReorder \/ EnvEdit \/ EnvTouch \/ EnvDelete \/ EnvFault

Next == Controller \/ Environment

Spec == Init /\ [][Next]_vars

(***************************************************************************)
(* What the claims speak about                                             *)
(***************************************************************************)
MaterialKeys == {"cpuRequest", "cpuLimit", "memoryRequest", "memoryLimit", "status"}

\* the suggestion and the workload UpdateOrReport is working on
CurSuggestion == suggestions[si]
CurWorkload == wl[wi]
CurRecords == Existing(store, RecordName(CurSuggestion))

\* whether the adapter named by suggestion s saw a sample of its container
Observed(w, s) ==
    IF s.Source = "Kubelet"
    THEN \E k \in 1..Len(pods[w.uid]) :
            /\ pods[w.uid][k].running
            /\ pods[w.uid][k].ok
            /\ s.ContainerName \in DOMAIN pods[w.uid][k].containers
    ELSE /\ promData[<<w.uid, s.ContainerName>>].cpu # NoSample
         /\ promData[<<w.uid, s.ContainerName>>].mem # NoSample

\* the loop has moved on from its position (pass, workload, suggestion)
MovedOn ==
    \/ pass' > pass
    \/ pass' = pass /\ wi' > wi
    \/ pass' = pass /\ wi' = wi /\ si' > si

(***************************************************************************)
(* C1: no action of the controller creates, updates or deletes a workload  *)
(* or a pod; the only objects it ever writes are ResourceSuggestion        *)
(* records, and it never deletes a record.                                 *)
(***************************************************************************)
C1_WritesOnlySuggestions ==
    [][env' = env =>
          /\ workloads' = workloads
          /\ pods' = pods
          /\ \A r \in store : Existing(store', r.name) # {}
          /\ (call'.n # call.n /\ call'.write # "none") =>
                /\ call'.write \in {"create", "update"}
                /\ call'.resource = "resourcesuggestions"]_vars

\* the controller has created one record and updated another over existing workloads
C1_Witness ==
    /\ call.outcome = "updated"
    /\ store # {}
    /\ rvNext > 2

(***************************************************************************)
(* C4: a recommendation is emitted for a container only if the adapter in  *)
(* use observed a usage sample for that container; a container for which   *)
(* no pod reported usage is skipped and never evaluated as if its usage    *)
(* were zero.                                                              *)
(***************************************************************************)
C4_OnlyObservedContainers ==
    pc \in {"get", "write"} =>
        \A i \in 1..Len(suggestions) : Observed(CurWorkload, suggestions[i])

(***************************************************************************)
(* C5: whenever the health probe of the historical backend fails for a     *)
(* workload, GenerateLogic returns exactly what the real-time adapter      *)
(* produces, every result carrying the source name "Kubelet", or nothing   *)
(* if the real-time adapter has no data.                                   *)
(***************************************************************************)
C5_ProbeFailureFallsBack ==
    [][(pc = "generate" /\ ~promUp /\ env' = env) =>
          LET r == GenerateKubeletSuggestions(CurWorkload, pods[CurWorkload.uid])
          IN  /\ r = <<>> => (suggestions' = <<>> /\ pc' # "get")
              /\ r # <<>> => (suggestions' = r /\ pc' = "get")
              /\ \A i \in 1..Len(suggestions') : suggestions'[i].Source = "Kubelet"]_vars

\* the probe failed, the historical backend held data for the workload, and
\* the results in hand are the real-time ones
C5_Witness ==
    /\ pc = "get"
    /\ ~lastPrometheusReachable
    /\ suggestions # <<>>
    /\ \A i \in 1..Len(suggestions) : suggestions[i].Source = "Kubelet"
    /\ \E n \in ContainerNames(CurWorkload) :
          promData[<<CurWorkload.uid, n>>].cpu # NoSample

(***************************************************************************)
(* C6: UpdateOrReport called twice in a row with the same recommendation   *)
(* for the same workload, starting without the record and with no external *)
(* change in between, writes once (the create); the second call writes     *)
(* nothing and reports no change without error.                            *)
(***************************************************************************)
C6_PublishIdempotent ==
    [][(/\ call'.n # call.n
        /\ call.outcome = "created"
        /\ call.write = "create"
        /\ call'.uid = call.uid
        /\ call'.sugg = call.sugg
        /\ call.env = env) =>
          /\ call'.outcome = "unchanged"
          /\ call'.write = "none"
          /\ store' = store
          /\ ret' = [changed |-> FALSE, err |-> "none"]]_vars

\* one workload, two finished calls on the same record, one write in all,
\* nothing external: the second call found the record unchanged
C6_Witness ==
    /\ workloads = <<DeployWeb>>
    /\ call.n = 2
    /\ call.outcome = "unchanged"
    /\ ret = [changed |-> FALSE, err |-> "none"]
    /\ rvNext = 2
    /\ env = 0
    /\ Cardinality(store) = 1

(***************************************************************************)
(* C7: when the record already exists, UpdateOrReport issues an Update if  *)
(* and only if at least one of cpuRequest, cpuLimit, memoryRequest,        *)
(* memoryLimit, status differs between the stored record and the new       *)
(* recommendation; a difference in anything else (the resource version,    *)
(* say) never causes a write.                                              *)
(***************************************************************************)
C7_UpdateIffMaterialChange ==
    [][/\ (pc = "get" /\ env' = env /\ CurRecords # {}) =>
             LET new == newSpec(CurSuggestion)
                 differs == \E r \in CurRecords : \E k \in MaterialKeys :
                                r.spec[k] # new[k]
             IN  /\ (pc' = "write" /\ got'.found) <=> differs
                 /\ ~differs => (store' = store /\ call'.write = "none")
       /\ (pc = "write" /\ env' = env) =>
             (call'.write = "update" <=> got.found)]_vars

\* a stored record that differs from the new recommendation in its source
\* only, and in its resource version since it was written, was left alone
C7_Witness ==
    /\ call.outcome = "unchanged"
    /\ call.write = "none"
    /\ \E r \in store :
          /\ r.name = call.name
          /\ r.spec.source # call.sugg.Source
          /\ r.rv = call.rvGot

(***************************************************************************)
(* C8: within one namespace two different (workload, container) pairs      *)
(* never map to the same record name, so one pair's publish never reads or *)
(* overwrites the record of another pair.                                  *)
(***************************************************************************)
C8_NoSharedRecord ==
    (pc = "write" /\ got.found) =>
        \A r \in CurRecords :
            /\ r.owner.uid = CurWorkload.uid
            /\ r.spec.containerName = CurSuggestion.ContainerName

(***************************************************************************)
(* C9: for a workload whose kind and name do not change, the record name   *)
(* assigned to a container (identified by its name) is the same in every   *)
(* pass, also when the containers list is reordered between passes.        *)
(***************************************************************************)
C9_StableRecordName ==
    \A a \in assigned : \A b \in assigned :
        (a[1] = b[1] /\ a[2] = b[2]) => a[3] = b[3]

(***************************************************************************)
(* C10: every Update carries the resource version obtained by the Get of   *)
(* the same call; if the record is modified externally between that Get    *)
(* and the Update (and the Update reaches the object store), the Update is *)
(* rejected as a conflict, the external                                    *)
(* modification is not overwritten, the call returns an error, and the     *)
(* loop moves on without retrying the call inside the pass.                *)
(***************************************************************************)
C10_ConflictDeferred ==
    [][(pc = "write" /\ got.found /\ env' = env /\ apiFault # "write") =>
          /\ call'.write = "update"
          /\ call'.rvSent = got.rv
          /\ (CurRecords # {} /\ \A r \in CurRecords : r.rv # got.rv) =>
                /\ store' = store
                /\ ret' = [changed |-> FALSE, err |-> "conflict"]
                /\ call'.outcome = "error"
                /\ MovedOn]_vars

\* an Update was rejected as a conflict and the external edit is still stored
C10_Witness ==
    /\ ret.err = "conflict"
    /\ call.write = "update"
    /\ \E r \in store :
          /\ r.name = call.name
          /\ r.spec.status = "Edited"
          /\ r.rv # call.rvSent

C17_FallbackProvenance ==
    (/\ ~lastPrometheusReachable
     /\ call.sugg.Source = "Kubelet"
     /\ call.outcome \in {"created", "updated", "unchanged"}) =>
        \A r \in Existing(store, call.name) :
            r.owner.uid = call.uid => r.spec.source = "Kubelet"

(***************************************************************************)
(* C18: fallback is decided for each workload on its own and is no latch:  *)
(* whatever happened to earlier workloads or in earlier passes, whenever   *)
(* the probe succeeds and the historical queries yield data for at least   *)
(* one container of a workload, that workload's recommendations are all    *)
(* historical-sourced.                                                     *)
(***************************************************************************)
C18_FallbackNotLatched ==
    [][(/\ pc = "generate"
        /\ env' = env
        /\ promUp
        /\ CurWorkload.selector
        /\ Len(pods[CurWorkload.uid]) > 0
        /\ \E n \in ContainerNames(CurWorkload) :
              /\ promData[<<CurWorkload.uid, n>>].cpu # NoSample
              /\ promData[<<CurWorkload.uid, n>>].mem # NoSample) =>
          /\ pc' = "get"
          /\ suggestions' # <<>>
          /\ \A i \in 1..Len(suggestions') : suggestions'[i].Source = "Prometheus"]_vars

\* the workload was published from the real-time adapter in the first pass
\* (its probe failed) and is historical-sourced in the second
C18_Witness ==
    /\ pass = 2
    /\ pc = "get"
    /\ CurSuggestion.Source = "Prometheus"
    /\ workloads = <<DeployWeb>>
    /\ \E r \in store :
          /\ r.owner.uid = CurWorkload.uid
          /\ r.spec.source = "Kubelet"

(***************************************************************************)
(* C19: the health probe is evaluated once per pass: the number of probes  *)
(* issued in a pass is one, however many workloads the pass discovers.     *)
(***************************************************************************)
C19_OneProbePerPass == probes <= 1

(***************************************************************************)
(* C20: starting from the recorded state "reachable", a probe prints the   *)
(* "unreachable" warning exactly when it fails while the recorded state is *)
(* reachable, the "restored" message exactly when it succeeds while the    *)
(* recorded state is unreachable, and nothing when its result equals the   *)
(* recorded state; after each probe the recorded state is its result.      *)
(***************************************************************************)
C20_EdgeTriggeredMessages ==
    [][(pc = "generate" /\ env' = env) =>
          /\ lastPrometheusReachable' = promUp
          /\ (printed' = "unreachable") <=> (lastPrometheusReachable /\ ~promUp)
          /\ (printed' = "restored") <=> (~lastPrometheusReachable /\ promUp)
          /\ (printed' = "none") <=> (lastPrometheusReachable = promUp)]_vars

\* the backend went away and came back: the last probe printed "restored"
C20_Witness ==
    /\ printed = "restored"
    /\ lastPrometheusReachable
    /\ promUp
    /\ env = 1

(***************************************************************************)
(* C21: a workload whose selector has no matchLabels, or whose selector    *)
(* matches zero pods, yields zero recommendations and no record write,     *)
(* whether the historical backend is reachable or not, and this is no      *)
(* error: the pass continues with the next workload.                       *)
(***************************************************************************)
C21_EmptyWorkloadSkipped ==
    [][(/\ pc = "generate"
        /\ env' = env
        /\ (~CurWorkload.selector \/ Len(pods[CurWorkload.uid]) = 0)) =>
          /\ suggestions' = <<>>
          /\ store' = store
          /\ call' = call
          /\ ret' = ret
          /\ returned' = returned
          /\ wi < Len(wl) => (wi' = wi + 1 /\ pc' = "generate" /\ wl' = wl /\ pass' = pass)
          /\ wi = Len(wl) => (pc' = "scan" /\ pass' = pass + 1)]_vars

\* the first workload has no matchLabels (and a reporting pod), nothing was
\* published for it, and the second workload's recommendations are in hand
C21_Witness ==
    /\ pc = "get"
    /\ wi = 2
    /\ ~wl[1].selector
    /\ Len(pods[wl[1].uid]) > 0
    /\ store = {}
    /\ call.n = 0
    /\ pass = 1

(***************************************************************************)
(* C22: a failure does not abort the pass: after a publish error for one   *)
(* container the next container of the workload is published, after the    *)
(* last item of a workload (failed or empty) the next discovered workload  *)
(* is processed, and a listing failure for one resource kind leaves the    *)
(* workloads of the other kinds in the pass.                               *)
(***************************************************************************)
C22_FailureContained ==
    [][env' = env =>
          /\ (pc = "write" /\ ret'.err # "none" /\ si < Len(suggestions)) =>
                /\ si' = si + 1
                /\ pc' = "get"
                /\ <<wl', wi', suggestions', pass'>> = <<wl, wi, suggestions, pass>>
          /\ (pc = "write" /\ ret'.err # "none" /\ si = Len(suggestions) /\ wi < Len(wl)) =>
                /\ wi' = wi + 1
                /\ pc' = "generate"
                /\ <<wl', pass'>> = <<wl, pass>>
          /\ (pc = "generate" /\ pc' # "get" /\ wi < Len(wl)) =>
                /\ wi' = wi + 1
                /\ pc' = "generate"
                /\ <<wl', pass'>> = <<wl, pass>>
          /\ pc = "scan" =>
                \A i \in 1..Len(workloads) :
                    workloads[i].kind # apiFault =>
                        \E j \in 1..Len(wl') : wl'[j] = workloads[i]]_vars

\* the write for the first container of web failed, and the second
\* container's record was then created in the same pass
C22_Witness ==
    /\ call.n = 2
    /\ call.name = <<"web", "2">>
    /\ call.outcome = "created"
    /\ returned = {[outcome |-> "error", ret |-> [changed |-> FALSE, err |-> "unavailable"]],
                   [outcome |-> "created", ret |-> [changed |-> TRUE, err |-> "none"]]}
    /\ \A r \in store : r.name = <<"web", "2">>

(***************************************************************************)
(* C23: when discovery returns an error, no workload is processed in that  *)
(* iteration and the next discovery attempt follows after the fixed short  *)
(* delay of 10 seconds; when discovery succeeds, the next pass starts only *)
(* after the full scan interval.                                           *)
(***************************************************************************)
C23_RetryDelay ==
    [][env' = env =>
          /\ (pc = "scan" /\ \A i \in 1..Len(workloads) : workloads[i].kind = apiFault) =>
                /\ pc' = "scan"
                /\ wl' = <<>>
                /\ slept' = 10
                /\ <<store', call', returned', suggestions'>>
                      = <<store, call, returned, suggestions>>
          /\ (pc = "scan" /\ \E i \in 1..Len(workloads) : workloads[i].kind # apiFault) =>
                /\ pc' = "generate"
                /\ wl' # <<>>
                /\ slept' = slept
          /\ (pc # "scan" /\ pc' = "scan") => slept' = ScanInterval]_vars

\* the listing of the only kind in use failed: the loop is back at discovery
\* after the short delay, nothing processed
C23_Witness ==
    /\ pc = "scan"
    /\ pass = 2
    /\ slept = RetryDelay
    /\ wl = <<>>
    /\ call.n = 0
    /\ store = {}

(***************************************************************************)
(* C24: every UpdateOrReport call ends as created, updated, unchanged or   *)
(* error, and the value returned to the caller identifies which of them    *)
(* occurred: no two calls that ended differently returned the same value.  *)
(***************************************************************************)
C24_ReturnIdentifiesOutcome ==
    /\ \A a \in returned : a.outcome \in {"created", "updated", "unchanged", "error"}
    /\ \A a \in returned : \A b \in returned : a.ret = b.ret => a.outcome = b.outcome

(***************************************************************************)
(* C28: the lookback window of the historical queries never exceeds 30     *)
(* days, whatever the workload's creation time, and is 30 days when the    *)
(* creation time is missing.                                               *)
(***************************************************************************)
LookbackHours(r) == IF r.unit = "d" THEN r.n * HoursPerDay ELSE r.n

C28_LookbackCapped ==
    /\ LookbackHours(window) <= 30 * HoursPerDay
    /\ \A i \in 1..Len(wl) :
          wl[i].creation = NoCreationTimestamp =>
              LookbackHours(Lookback(wl[i].creation)) = 30 * HoursPerDay

(***************************************************************************)
(* C29: all recommendations returned for one workload in one pass carry    *)
(* the same source; if the historical path yields data for at least one    *)
(* container, the results are exactly the containers with historical data, *)
(* all historical-sourced, and the others get no recommendation.           *)
(***************************************************************************)
HasHistory(w, n) ==
    /\ promData[<<w.uid, n>>].cpu # NoSample
    /\ promData[<<w.uid, n>>].mem # NoSample

C29_OneSourcePerWorkload ==
    [][(pc = "generate" /\ env' = env) =>
          /\ \A i \in 1..Len(suggestions') : \A j \in 1..Len(suggestions') :
                suggestions'[i].Source = suggestions'[j].Source
          /\ (/\ promUp
              /\ CurWorkload.selector
              /\ Len(pods[CurWorkload.uid]) > 0
              /\ \E n \in ContainerNames(CurWorkload) : HasHistory(CurWorkload, n)) =>
                /\ {suggestions'[i].ContainerName : i \in 1..Len(suggestions')}
                      = {n \in ContainerNames(CurWorkload) : HasHistory(CurWorkload, n)}
                /\ \A i \in 1..Len(suggestions') : suggestions'[i].Source = "Prometheus"]_vars

\* only app has historical data, a pod reports usage for sidecar, and the one
\* recommendation in hand is the historical one for app
C29_Witness ==
    /\ pc = "get"
    /\ workloads = <<DeployWeb>>
    /\ Len(suggestions) = 1
    /\ suggestions[1].Source = "Prometheus"
    /\ suggestions[1].ContainerName = "app"
    /\ ~HasHistory(DeployWeb, "sidecar")
    /\ \E k \in 1..Len(pods[1]) :
          /\ pods[1][k].running
          /\ pods[1][k].ok
          /\ "sidecar" \in DOMAIN pods[1][k].containers

(***************************************************************************)
(* C30: if the workloads, their container specs and the observed usage     *)
(* stay the same and nothing external happens, then from the second pass   *)
(* onward no publish call creates or updates anything: every call reports  *)
(* no change, for every set of workloads in the namespace.                 *)
(***************************************************************************)
C30_SecondPassQuiet ==
    [][(env = 0 /\ env' = 0 /\ pass >= 2 /\ call'.n # call.n) =>
          /\ call'.outcome = "unchanged"
          /\ store' = store]_vars

(***************************************************************************)
(* The calculator on drawn inputs                                          *)
(***************************************************************************)
CalcCpuStrs ==
    {NilStr, QStr(0, "m"), QStr(30, "m"), QStr(100, "m"), QStr(150, "m"),
     QStr(200, "m"), QStr(1, "")}
CalcMemStrs ==
    {NilStr, QStr(50, "Mi"), QStr(120, "Mi"), QStr(512, "Mi"), QStr(1, "Gi")}
CalcCpuUsage ==
    {0, 1, Milli(20), Milli(25), Milli(25) + Milli(1) \div 2, Milli(26), Milli(83),
     Milli(84), Milli(125), Milli(250)}
CalcMemUsage ==
    {0, Mi(41), Mi(42), Mi(100), Mi(150)}

\* declared limits: none, zero, below and above the requests drawn, and a
\* decimal-suffixed quantity
CalcCpuLimits == {NilStr, QStr(0, "m"), QStr(50, "m"), QStr(200, "m")}
CalcMemLimits == {NilStr, QStr(64, "Mi"), QStr(512, "Mi"), QStr(1, "G")}

\* strings for the normalizer: the small suffixes, a decimal number of
\* cores, a decimal magnitude before a suffix, a magnitude that is no number,
\* and suffixes outside the recognized set
CalcParseCpu ==
    {QStr(500, "u"), QStr(100000000, "n"), QDec(0, 500, ""), QDec(1, 500, "m"),
     QBad("m"), QStr(2, "k")}
CalcParseMem ==
    {QStr(512, "Ki"), QStr(134217728, ""), QDec(1, 500, "Gi"), QBad("Mi"),
     QStr(500, "M")}

CalcSpecs ==
    {[name |-> "app", reqCpu |-> rc, reqMem |-> rm, limCpu |-> lc, limMem |-> lm] :
        rc \in CalcCpuStrs, rm \in CalcMemStrs,
        lc \in CalcCpuLimits, lm \in CalcMemLimits}
    \cup
    {[name |-> "app", reqCpu |-> rc, reqMem |-> rm, limCpu |-> NilStr, limMem |-> lm] :
        rc \in CalcParseCpu, rm \in CalcParseMem, lm \in {NilStr, QStr(1, "G")}}
    \cup
    {[name |-> "app", reqCpu |-> NilStr, reqMem |-> NilStr, limCpu |-> lc, limMem |-> lm] :
        lc \in CalcParseCpu, lm \in CalcParseMem}

InitCalc ==
    /\ workloads = <<DeployWeb>>
    /\ pods = [u \in {1} |-> <<>>]
    /\ promUp = TRUE
    /\ promData = [p \in Pairs(workloads) |-> [cpu |-> NoSample, mem |-> NoSample]]
    /\ store = {}
    /\ rvNext = 1
    /\ env = 0
    /\ pc = "idle"
    /\ pass = 1
    /\ wl = <<>>
    /\ wi = 1
    /\ suggestions = <<>>
    /\ si = 1
    /\ got = [found |-> FALSE, rv |-> 0]
    /\ lastPrometheusReachable = TRUE
    /\ probes = 0
    /\ printed = "none"
    /\ window = NoWindow
    /\ apiFault = "none"
    /\ slept = 0
    /\ returned = {}
    /\ ret = NoRet
    /\ call = NoCall
    /\ assigned = {}
    /\ calc \in {[c |-> c, cpu |-> u, mem |-> m, done |-> FALSE, out |-> [status |-> ""]] :
                 c \in CalcSpecs, u \in CalcCpuUsage, m \in CalcMemUsage}

Calculate ==
    /\ ~calc.done
    /\ calc' = [calc EXCEPT !.done = TRUE,
                            !.out = Locals(calc.c, calc.cpu, calc.mem)]
    /\ UNCHANGED <<cluster, store, rvNext, env, pc, loop, got,
                   lastPrometheusReachable, probing, ret, ghost>>

NextCalc == Calculate

SpecCalc == InitCalc /\ [][NextCalc]_vars

(***************************************************************************)
(* C2: for every observed usage (zero included) and every current          *)
(* container spec, the target request that makeSuggestion computes is at   *)
(* least 30 millicores of CPU and at least 50 Mi of memory.                *)
(***************************************************************************)
C2_FloorInvariant ==
    calc.done =>
        /\ calc.out.targetCpuReqNano >= 30 * NanoPerMilli
        /\ calc.out.targetMemReqBytes >= 50 * BytesPerMi
        /\ calc.out.cpuRequestStr.tgt.n >= 30
        /\ calc.out.memRequestStr.tgt.n >= 50

\* zero usage has been evaluated and the floor is what came out
C2_Witness ==
    /\ calc.done
    /\ calc.cpu = 0 /\ calc.mem = 0
    /\ calc.out.targetCpuReqNano = 30 * NanoPerMilli
    /\ calc.out.targetMemReqBytes = 50 * BytesPerMi

(***************************************************************************)
(* C3: the status is Underprovisioned whenever the CPU or the memory       *)
(* target request exceeds the current request, even if the other           *)
(* dimension decreases; otherwise Overprovisioned when at least one target *)
(* request is strictly below the current request; and Optimal exactly when *)
(* both target requests equal the current requests.                        *)
(***************************************************************************)
C3_Classification ==
    calc.done =>
        LET o == calc.out
            up == \/ o.targetCpuReqNano > o.currentCpuReqNano
                  \/ o.targetMemReqBytes > o.currentMemReqBytes
            down == \/ o.targetCpuReqNano < o.currentCpuReqNano
                    \/ o.targetMemReqBytes < o.currentMemReqBytes
        IN  /\ up => o.status = "Underprovisioned"
            /\ (~up /\ down) => o.status = "Overprovisioned"
            /\ o.status = "Optimal" <=>
                  /\ o.targetCpuReqNano = o.currentCpuReqNano
                  /\ o.targetMemReqBytes = o.currentMemReqBytes

\* CPU goes up while memory goes down, and the verdict is Underprovisioned
C3_Witness ==
    /\ calc.done
    /\ calc.out.targetCpuReqNano > calc.out.currentCpuReqNano
    /\ calc.out.targetMemReqBytes < calc.out.currentMemReqBytes
    /\ calc.out.status = "Underprovisioned"

(***************************************************************************)
(* C12: when the container declares a limit and its current request is     *)
(* greater than zero, the target limit differs from target request x       *)
(* (current limit / current request) by less than one coarse unit (5       *)
(* millicores, 5 Mi), for CPU and for memory independently.  The targets   *)
(* are taken in millicores and Mi, the ratio in lowest terms, and the      *)
(* comparison is cross-multiplied by the ratio's denominator.              *)
(***************************************************************************)
WithinUnit(tl, tr, cl, cr) ==
    LET n == cl \div Gcd(cl, cr)
        d == cr \div Gcd(cl, cr)
    IN  /\ tl * d - tr * n < 5 * d
        /\ tr * n - tl * d < 5 * d

C12_RatioPreserved ==
    calc.done =>
        LET o == calc.out
        IN  /\ (o.hasCpuLimit /\ o.currentCpuReqNano > 0) =>
                  WithinUnit(o.targetCpuLimNano \div NanoPerMilli,
                             o.targetCpuReqNano \div NanoPerMilli,
                             o.currentCpuLimNano, o.currentCpuReqNano)
            /\ (o.hasMemLimit /\ o.currentMemReqBytes > 0) =>
                  WithinUnit(o.targetMemLimBytes \div BytesPerMi,
                             o.targetMemReqBytes \div BytesPerMi,
                             o.currentMemLimBytes, o.currentMemReqBytes)

\* both limits were scaled, and the CPU product was no multiple of the
\* coarse unit, so the rounding moved it
C12_Witness ==
    /\ calc.done
    /\ calc.out.hasCpuLimit /\ calc.out.currentCpuReqNano > 0
    /\ calc.out.hasMemLimit /\ calc.out.currentMemReqBytes > 0
    /\ calc.out.currentCpuLimNano > 0
    /\ (calc.out.targetCpuLimNano \div NanoPerMilli)
            * (calc.out.currentCpuReqNano \div NanoPerMilli)
         # (calc.out.targetCpuReqNano \div NanoPerMilli)
              * (calc.out.currentCpuLimNano \div NanoPerMilli)

(***************************************************************************)
(* C13: when the container declares no limit for a resource, the target    *)
(* limit for that resource equals the target request exactly; the same     *)
(* holds when a limit is declared but the current request is zero or       *)
(* unset.                                                                  *)
(***************************************************************************)
C13_NoLimitMeansRequest ==
    calc.done =>
        LET o == calc.out
        IN  /\ (~o.hasCpuLimit \/ o.currentCpuReqNano = 0) =>
                  /\ o.targetCpuLimNano = o.targetCpuReqNano
                  /\ o.cpuLimitStr.tgt = o.cpuRequestStr.tgt
            /\ (~o.hasMemLimit \/ o.currentMemReqBytes = 0) =>
                  /\ o.targetMemLimBytes = o.targetMemReqBytes
                  /\ o.memLimitStr.tgt = o.memRequestStr.tgt

\* a memory limit is declared, the memory request is unset, no CPU limit is
\* declared, and both target limits are the target requests
C13_Witness ==
    /\ calc.done
    /\ calc.c.limMem = QStr(512, "Mi") /\ calc.c.reqMem = NilStr
    /\ calc.c.limCpu = NilStr /\ calc.c.reqCpu = QStr(100, "m")
    /\ calc.out.targetMemLimBytes = calc.out.targetMemReqBytes
    /\ calc.out.targetCpuLimNano = calc.out.targetCpuReqNano

(***************************************************************************)
(* C14: the target request is a multiple of the coarse unit (5 millicores, *)
(* 5 Mi) obtained by rounding up: it is never less than                    *)
(* max(1.2 x observed usage, floor) and exceeds it by less than one coarse *)
(* unit.  1.2 x usage is compared exactly, as 6 x usage against 5 x        *)
(* target.                                                                 *)
(***************************************************************************)
Max(a, b) == IF a > b THEN a ELSE b

RoundedUp(target, usage, floor, unit) ==
    /\ target % (5 * unit) = 0
    /\ 5 * target >= Max(6 * usage, 5 * floor)
    /\ 5 * target - Max(6 * usage, 5 * floor) < 25 * unit

C14_RoundedUp ==
    calc.done =>
        /\ RoundedUp(calc.out.targetCpuReqNano, calc.cpu,
                     MinCpuMilli * NanoPerMilli, NanoPerMilli)
        /\ RoundedUp(calc.out.targetMemReqBytes, calc.mem,
                     MinMemMi * BytesPerMi, BytesPerMi)

(***************************************************************************)
(* C15: for a fixed container spec, if observed usage u1 <= u2 then the    *)
(* target request computed for u1 is <= the target request computed for    *)
(* u2, for CPU and for memory.                                             *)
(***************************************************************************)
C15_Monotone ==
    calc.done =>
        /\ \A u1 \in CalcCpuUsage :
              u1 <= calc.cpu =>
                 Locals(calc.c, u1, calc.mem).targetCpuReqNano
                    <= calc.out.targetCpuReqNano
        /\ \A m1 \in CalcMemUsage :
              m1 <= calc.mem =>
                 Locals(calc.c, calc.cpu, m1).targetMemReqBytes
                    <= calc.out.targetMemReqBytes

\* the usage evaluated lies above a smaller one whose target is strictly
\* smaller, and above another one that the floor maps to the same target
C15_Witness ==
    /\ calc.done
    /\ \E u1 \in CalcCpuUsage :
          /\ u1 < calc.cpu
          /\ Locals(calc.c, u1, calc.mem).targetCpuReqNano < calc.out.targetCpuReqNano
    /\ \E m1 \in CalcMemUsage :
          /\ m1 < calc.mem
          /\ Locals(calc.c, calc.cpu, m1).targetMemReqBytes < calc.out.targetMemReqBytes

(***************************************************************************)
(* C16: every target in a recommendation, the target limit as well as the  *)
(* target request, is at least the floor (30 millicores, 50 Mi), for every *)
(* current spec (a declared limit that is zero, unparseable or smaller     *)
(* than the request included) and every usage.                             *)
(***************************************************************************)
C16_AllTargetsAboveFloor ==
    calc.done =>
        /\ calc.out.targetCpuReqNano >= MinCpuMilli * NanoPerMilli
        /\ calc.out.targetCpuLimNano >= MinCpuMilli * NanoPerMilli
        /\ calc.out.targetMemReqBytes >= MinMemMi * BytesPerMi
        /\ calc.out.targetMemLimBytes >= MinMemMi * BytesPerMi

(***************************************************************************)
(* C25: the normalizer returns, for a CPU string, the integer magnitude    *)
(* x1 for suffix n, x1e3 for u, x1e6 for m, and a bare decimal number      *)
(* x1e9; for a memory string, the integer magnitude x2^10 for Ki, x2^20    *)
(* for Mi, x2^30 for Gi, and a bare integer itself; and 0 for every other  *)
(* input: a missing field, an unknown suffix, a magnitude that is no       *)
(* number, or one that is no integer where an integer is read.             *)
(***************************************************************************)
IntegerMagnitude(s) == s.num /\ s.frac = 0

NormalCpu(s) ==
    IF s.suf \in {"n", "u", "m"} /\ IntegerMagnitude(s)
    THEN s.mag * (CASE s.suf = "n" -> 1 [] s.suf = "u" -> 1000 [] s.suf = "m" -> 1000000)
    ELSE IF s.suf = "" /\ s.num THEN (s.mag * 1000 + s.frac) * 1000000
    ELSE 0

NormalMem(s) ==
    IF s.suf \in {"Ki", "Mi", "Gi"} /\ IntegerMagnitude(s)
    THEN s.mag * (CASE s.suf = "Ki" -> 1024 [] s.suf = "Mi" -> 1024 * 1024
                    [] s.suf = "Gi" -> 1024 * 1024 * 1024)
    ELSE IF s.suf = "" /\ IntegerMagnitude(s) THEN s.mag
    ELSE 0

C25_Normalizer ==
    calc.done =>
        /\ calc.out.currentCpuReqNano = NormalCpu(calc.c.reqCpu)
        /\ calc.out.currentCpuLimNano = NormalCpu(calc.c.limCpu)
        /\ calc.out.currentMemReqBytes = NormalMem(calc.c.reqMem)
        /\ calc.out.currentMemLimBytes = NormalMem(calc.c.limMem)

\* 500u and 512Ki were read as 500000 nanocores and 524288 bytes, and the
\* limit 1G as 0
C25_Witness ==
    /\ calc.done
    /\ calc.c.reqCpu = QStr(500, "u")
    /\ calc.c.reqMem = QStr(512, "Ki")
    /\ calc.c.limMem = QStr(1, "G")
    /\ calc.out.currentCpuReqNano = 500000
    /\ calc.out.currentMemReqBytes = 524288
    /\ calc.out.hasMemLimit
    /\ calc.out.currentMemLimBytes = 0

(***************************************************************************)
(* C26: for every valid CPU or memory string s with a recognized suffix,   *)
(* formatting the normalized value with the display formatter (millicores, *)
(* Mi) and normalizing the formatted string again gives a value that       *)
(* differs from normalize(s) by less than the rounding granularity (5      *)
(* millicores, 5 Mi).                                                      *)
(***************************************************************************)
\* the text a formatted value is, read as a quantity string again
AsQuantity(f) == [mag |-> f.n, frac |-> 0, num |-> TRUE, suf |-> f.unit]

ValidCpu(s) == (s.suf \in {"n", "u", "m"} /\ IntegerMagnitude(s)) \/ (s.suf = "" /\ s.num)
ValidMem(s) == s.suf \in {"Ki", "Mi", "Gi", ""} /\ IntegerMagnitude(s)

Near(a, b, unit) == a - b < 5 * unit /\ b - a < 5 * unit

C26_RoundTrip ==
    calc.done =>
        /\ ValidCpu(calc.c.reqCpu) =>
              Near(parseCpuToNano(AsQuantity(calc.out.cpuRequestStr.cur)),
                   parseCpuToNano(calc.c.reqCpu), NanoPerMilli)
        /\ ValidCpu(calc.c.limCpu) =>
              Near(parseCpuToNano(AsQuantity(calc.out.cpuLimitStr.cur)),
                   parseCpuToNano(calc.c.limCpu), NanoPerMilli)
        /\ ValidMem(calc.c.reqMem) =>
              Near(parseMemoryToBytes(AsQuantity(calc.out.memRequestStr.cur)),
                   parseMemoryToBytes(calc.c.reqMem), BytesPerMi)
        /\ ValidMem(calc.c.limMem) =>
              Near(parseMemoryToBytes(AsQuantity(calc.out.memLimitStr.cur)),
                   parseMemoryToBytes(calc.c.limMem), BytesPerMi)

\* 1 core came back as 1000m, and 1Gi as 1024Mi, the same values
C26_Witness ==
    /\ calc.done
    /\ calc.c.reqCpu = QStr(1, "")
    /\ calc.c.reqMem = QStr(1, "Gi")
    /\ calc.out.cpuRequestStr.cur = [n |-> 1000, unit |-> "m"]
    /\ calc.out.memRequestStr.cur = [n |-> 1024, unit |-> "Mi"]
    /\ parseCpuToNano(AsQuantity(calc.out.cpuRequestStr.cur)) = NanoPerCore
    /\ parseMemoryToBytes(AsQuantity(calc.out.memRequestStr.cur)) = BytesPerGi

(***************************************************************************)
(* C27: each of the four request/limit strings has the form                *)
(* "<current>-><target>"; the current value carries the explicit not-set   *)
(* marker exactly when it is zero, and a nonzero current value is never    *)
(* rendered as a zero magnitude.                                           *)
(***************************************************************************)
Marked(f) == f.unit \in {"m (Not Set)", "Mi (Not Set)"}

Rendered(str, current) ==
    /\ DOMAIN str = {"cur", "tgt"}
    /\ Marked(str.cur) <=> current = 0
    /\ current # 0 => str.cur.n # 0

C27_NotSetMarker ==
    calc.done =>
        /\ Rendered(calc.out.cpuRequestStr, calc.out.currentCpuReqNano)
        /\ Rendered(calc.out.cpuLimitStr, calc.out.currentCpuLimNano)
        /\ Rendered(calc.out.memRequestStr, calc.out.currentMemReqBytes)
        /\ Rendered(calc.out.memLimitStr, calc.out.currentMemLimBytes)

====
